---- MODULE Spec2Model ----
(***************************************************************************)
(* A model of mdbload's load generation engine: the coordinator            *)
(* (cmd/start.go startCmd.Run and startLoadGeneration), the document       *)
(* source (createDocumentsFromTemplates, and updateDocument of the earlier *)
(* revision), the writer and reader routines (pkg/mongo/load.go), the      *)
(* in-process queue (MemoryQueue) and the telemetry pusher.                *)
(*                                                                         *)
(* Goroutines are processes with a program counter; every action is one    *)
(* atomic step of one goroutine between two scheduling points.  Time is    *)
(* discrete: a time.After channel or a time.Sleep is a timer holding the   *)
(* time left until it is ready, and Tick lets one unit of time pass for    *)
(* all of them.  A Go select with several ready cases takes any of them.   *)
(***************************************************************************)
EXTENDS Integers, Sequences, FiniteSets, TLC

\* ---------------------------------------------------------------- bounds
MaxWriters == 2
MaxReaders == 2
TestDuration == 1
PushFrequency == 1
DocChanCap == 2
MaxInserts == 2
MaxReads == 1
MaxDocs == 1
MaxTasks == 3
MaxPushes == 2
MaxEmptyPolls == 3
MaxBatch == 2
MaxCalls == 4
MaxQueueCalls == 5
MaxItems == 2

Writers == 1..MaxWriters
Readers == 1..MaxReaders
Documents == 1..MaxDocs

VARIABLES
    writes,          \* viper "goroutines.writes"
    reads,           \* viper "goroutines.reads"
    pushEnabled,     \* viper "telemetry.pushgateway.enable"
    redisEnabled,    \* viper "queue.redis.enable"
    fatal,           \* log.Fatal has ended the process
    coordPc,         \* the coordinator's position in startCmd.Run
    spawnedW,        \* writers started so far by startLoadGeneration
    spawnedR,        \* readers started so far by startLoadGeneration
    loadWg,          \* the WaitGroup of startLoadGeneration / loadWaitGroup
    utilWg,          \* the WaitGroup of startCmd.Run / utilityWaitGroup
    engineTimer,     \* the time left of the run, from the entry of startLoadGeneration
    ctxCancelled,    \* cancel() of the database context has been called
    docs,            \* the buffered document channel
    docSrcPc,        \* the document source's position
    docSrcHeld,      \* the document the document source is about to send
    pusherPc,        \* the telemetry pusher's position
    pushTimer,       \* the pusher's time.After(Frequency) of this iteration
    pushCount,       \* pushes performed
    wpc,             \* writer positions
    wTimer,          \* writer timeout channels
    wHeld,           \* the document each writer holds
    wId,             \* the id returned by a writer's last InsertDocument
    rpc,             \* reader positions
    rTimer,          \* reader timeout channels
    rItem,           \* the item each reader holds
    rSleep,          \* time left of a reader's time.Sleep
    queue,           \* the MemoryQueue's items, head first
    queueSize,       \* gauge mdbload_items_queued
    queueError,      \* counter mdbload_queue_errors_total, by operation
    redisList,       \* the Redis list "mdbload:queue", leftmost first
    dequeued,        \* every item a Dequeue has returned, in order
    lastCall,        \* the last call made on the Queue through its interface
    nextId,          \* the next ObjectID the database hands out
    insertedIds,     \* ids returned by successful inserts
    enqueued,        \* every item an Enqueue has added to the queue, in order
    documentCounter, \* counter mdbload_documents_total
    opLatency,       \* observations of mdbload_operation_latency_seconds
    opFailure,       \* counter mdbload_operation_failure_total
    dbCalls,         \* InsertOne/InsertMany and FindOne calls made, by operation
    dbErrors,        \* those of them the database answered with an error
    gateway,         \* what the push gateway has received from pusher.Add()
    signalWait,      \* interval pushes made while the exit signal was being sent
    results,         \* the buffered results channel of the first revision
    resultsOpen,     \* close(results) has not been called
    resultsQueue,    \* the lane.Queue getResults stores results in
    grPc,            \* getResults' position
    sent,            \* every result a writer has sent on the results channel
    closedChans      \* the other channels close() has been called on

cfgVars == <<writes, reads, pushEnabled, redisEnabled>>
coordVars == <<coordPc, spawnedW, spawnedR, engineTimer, ctxCancelled>>
srcVars == <<docSrcPc, docSrcHeld>>
pushVars == <<pusherPc, pushTimer, pushCount, gateway, signalWait>>
writerVars == <<wpc, wTimer, wHeld, wId>>
readerVars == <<rpc, rTimer, rItem, rSleep>>
queueVars == <<queue, queueSize, enqueued, queueError, redisList, dequeued,
               lastCall>>
dbVars == <<nextId, insertedIds, documentCounter, opLatency, opFailure,
            dbCalls, dbErrors>>
resVars == <<results, resultsOpen, resultsQueue, grPc, sent, closedChans>>

vars == <<cfgVars, fatal, coordVars, loadWg, utilWg, docs, srcVars,
          pushVars, writerVars, readerVars, queueVars, dbVars, resVars>>

\* ------------------------------------------------------------- values
\* The nil interface value.
Nil == [type |-> "nil"]

\* The id InsertDocument returns on failure: the empty string.  The ids the
\* database hands out are 1, 2, ...
NoId == 0

\* A MongoDocument value (the Hostname and Timestamp fields decide nothing).
MongoDocument(id) == [type |-> "MongoDocument", Id |-> id]

\* A value json.Marshal has no encoding for (a channel, a function).
Unserializable == [type |-> "chan"]
Serializable(item) == item.type = "MongoDocument"

\* json.Marshal(item) as a string, and json.Unmarshal of such a string into
\* a MongoDocument.
Marshal(item) == [type |-> "string", json |-> [Id |-> item.Id]]
Unmarshal(str) == MongoDocument(str.json.Id)

\* No call has been made on the Queue.
NoCall == [n |-> 0, before |-> "none", op |-> "none", arg |-> Nil,
           result |-> Nil]

\* A time.After channel: created with d units left, ready with none left.
NoTimer == [armed |-> FALSE, left |-> 0]
After(d) == [armed |-> TRUE, left |-> d]
Ready(t) == t.armed /\ t.left = 0
Running(t) == t.armed /\ t.left > 0
Elapse(t) == IF Running(t) THEN [t EXCEPT !.left = @ - 1] ELSE t

\* The process runs: no log.Fatal, and main has not returned.
Alive == ~fatal /\ coordPc # "done"

\* The process ends at once; every goroutine, channel and metric of it is
\* gone, and only the configuration remains.  `how` is "fatal" for
\* log.Fatal (os.Exit(1)) and "panic" for a run-time panic.
Exit(how) ==
    /\ fatal' = TRUE
    /\ coordPc' = how
    /\ spawnedW' = 0
    /\ spawnedR' = 0
    /\ loadWg' = 0
    /\ utilWg' = 0
    /\ engineTimer' = NoTimer
    /\ ctxCancelled' = FALSE
    /\ docs' = <<>>
    /\ docSrcPc' = "idle"
    /\ docSrcHeld' = 1
    /\ pusherPc' = "idle"
    /\ pushTimer' = NoTimer
    /\ pushCount' = 0
    /\ wpc' = [w \in Writers |-> "idle"]
    /\ wTimer' = [w \in Writers |-> NoTimer]
    /\ wHeld' = [w \in Writers |-> 1]
    /\ wId' = [w \in Writers |-> NoId]
    /\ rpc' = [r \in Readers |-> "idle"]
    /\ rTimer' = [r \in Readers |-> NoTimer]
    /\ rItem' = [r \in Readers |-> Nil]
    /\ rSleep' = [r \in Readers |-> 0]
    /\ queue' = <<>>
    /\ queueSize' = 0
    /\ queueError' = [enqueue |-> 0, dequeue |-> 0]
    /\ redisList' = <<>>
    /\ dequeued' = <<>>
    /\ lastCall' = NoCall
    /\ nextId' = 1
    /\ insertedIds' = {}
    /\ enqueued' = <<>>
    /\ documentCounter' = 0
    /\ opLatency' = [insert |-> 0, read |-> 0]
    /\ opFailure' = [insert |-> 0, read |-> 0]
    /\ dbCalls' = [insert |-> 0, read |-> 0]
    /\ dbErrors' = [insert |-> 0, read |-> 0]
    /\ gateway' = [received |-> 0, documents |-> 0]
    /\ signalWait' = 0
    /\ results' = <<>>
    /\ resultsOpen' = TRUE
    /\ resultsQueue' = <<>>
    /\ grPc' = "idle"
    /\ sent' = <<>>
    /\ closedChans' = {}
    /\ UNCHANGED cfgVars

LogFatal == Exit("fatal")

\* A run-time panic in a goroutine (a failed type assertion) ends the process.
Panic == Exit("panic")


\* ---------------------------------------------------------- MemoryQueue
\* lane.Queue.Dequeue / Head: the first item, or nil when the queue is empty.
MemHead == IF queue = <<>> THEN Nil ELSE Head(queue)

\* Size as the number of items ever enqueued (removals not counted).
MemSizeEverEnqueued == Len(enqueued)

\* MemoryQueue.Size: q.queue.Size().
MemSize == Len(queue)

\* Enqueue storing the item's serialized form, as the Redis queue does.
MemEnqueueSerialized(item) ==
    /\ queue' = Append(queue, IF Serializable(item) THEN Marshal(item)
                              ELSE item)
    /\ queueSize' = queueSize + 1
    /\ enqueued' = Append(enqueued, item)
    /\ UNCHANGED <<queueError, redisList, dequeued>>

\* MemoryQueue.Enqueue: append the item, then queueSize.Inc().
MemEnqueue(item) ==
    /\ queue' = Append(queue, item)
    /\ queueSize' = queueSize + 1
    /\ enqueued' = Append(enqueued, item)
    /\ UNCHANGED <<queueError, redisList, dequeued>>

\* Dequeue returning the first item without removing it (q.queue.Head()
\* in place of q.queue.Dequeue()).
MemDequeueNoRemove ==
    /\ queue' = queue
    /\ queueSize' = IF queueSize > -MaxEmptyPolls THEN queueSize - 1
                     ELSE queueSize
    /\ dequeued' = IF queue = <<>> THEN dequeued
                   ELSE Append(dequeued, Head(queue))
    /\ UNCHANGED <<enqueued, queueError, redisList>>

\* MemoryQueue.Dequeue: remove the first item if there is one, then
\* queueSize.Dec(), whether or not an item was removed.  (The gauge is
\* followed down to -MaxEmptyPolls and stays there, so that a routine
\* polling an empty queue forever is a cycle of finitely many states.)
MemDequeue ==
    /\ queue' = IF queue = <<>> THEN queue ELSE Tail(queue)
    /\ queueSize' = IF queueSize > -MaxEmptyPolls THEN queueSize - 1
                     ELSE queueSize
    /\ dequeued' = IF queue = <<>> THEN dequeued
                   ELSE Append(dequeued, Head(queue))
    /\ UNCHANGED <<enqueued, queueError, redisList>>

\* ----------------------------------------------------------- RedisQueue
\* `ok` is the transport's answer to the one Redis command of the call.
\* Enqueue with queueSize.Inc() ahead of the RPUSH instead of after it.
RedisEnqueueCountsFirst(item, ok) ==
    IF Serializable(item) /\ ok
    THEN /\ redisList' = Append(redisList, Marshal(item))
         /\ queueSize' = queueSize + 1
         /\ enqueued' = Append(enqueued, item)
         /\ UNCHANGED <<queue, queueError, dequeued>>
    ELSE /\ queueError' = [queueError EXCEPT !.enqueue = @ + 1]
         /\ queueSize' = IF Serializable(item) THEN queueSize + 1
                          ELSE queueSize
         /\ UNCHANGED <<queue, enqueued, redisList, dequeued>>

\* RedisQueue.Enqueue: json.Marshal(item), then RPUSH; either failing
\* counts an enqueue error and returns.  Otherwise queueSize.Inc().
RedisEnqueue(item, ok) ==
    IF Serializable(item) /\ ok
    THEN /\ redisList' = Append(redisList, Marshal(item))
         /\ queueSize' = queueSize + 1
         /\ enqueued' = Append(enqueued, item)
         /\ UNCHANGED <<queue, queueError, dequeued>>
    ELSE /\ queueError' = [queueError EXCEPT !.enqueue = @ + 1]
         /\ UNCHANGED <<queue, queueSize, enqueued, redisList, dequeued>>

\* BLPOP key with a timeout of one second answers the leftmost element, or
\* the error redis.Nil when the list stayed empty; a transport error is an
\* error too.
RedisDequeueResult(ok) ==
    IF ok /\ redisList # <<>> THEN Head(redisList) ELSE Nil

\* Dequeue removing the rightmost element (BRPOP in place of BLPOP).
RedisDequeueRPop(ok) ==
    IF ok /\ redisList # <<>>
    THEN /\ redisList' = SubSeq(redisList, 1, Len(redisList) - 1)
         /\ queueSize' = queueSize - 1
         /\ dequeued' = Append(dequeued, redisList[Len(redisList)])
         /\ UNCHANGED <<queue, enqueued, queueError>>
    ELSE /\ queueError' = [queueError EXCEPT !.dequeue =
                              IF @ < MaxEmptyPolls THEN @ + 1 ELSE @]
         /\ UNCHANGED <<queue, queueSize, enqueued, redisList, dequeued>>

\* RedisQueue.Dequeue: on an error count a dequeue error and return nil;
\* otherwise queueSize.Dec() and return the element.  (The error counter
\* is followed up to MaxEmptyPolls and stays there, as the gauge above.)
RedisDequeue(ok) ==
    IF ok /\ redisList # <<>>
    THEN /\ redisList' = Tail(redisList)
         /\ queueSize' = queueSize - 1
         /\ dequeued' = Append(dequeued, Head(redisList))
         /\ UNCHANGED <<queue, enqueued, queueError>>
    ELSE /\ queueError' = [queueError EXCEPT !.dequeue =
                              IF @ < MaxEmptyPolls THEN @ + 1 ELSE @]
         /\ UNCHANGED <<queue, queueSize, enqueued, redisList, dequeued>>

\* RedisQueue.Head: LRANGE key 0 0; nil on an error or an empty answer.
RedisHead(ok) == IF ok /\ redisList # <<>> THEN Head(redisList) ELSE Nil

\* RedisQueue.Size: LLEN key; -1 on an error.
RedisSize(ok) == IF ok THEN Len(redisList) ELSE -1

\* ------------------------------------------------- the Queue interface
\* A call through the Queue interface goes to the implementation createQueue
\* selected.
QueueEnqueue(item, ok) ==
    IF redisEnabled THEN RedisEnqueue(item, ok) ELSE MemEnqueue(item)

QueueDequeueResult(ok) ==
    IF redisEnabled THEN RedisDequeueResult(ok) ELSE MemHead

QueueDequeue(ok) ==
    IF redisEnabled THEN RedisDequeue(ok) ELSE MemDequeue

QueueHead(ok) == IF redisEnabled THEN RedisHead(ok) ELSE MemHead

QueueSize(ok) == IF redisEnabled THEN RedisSize(ok) ELSE MemSize

\* ------------------------------------------------------------ MongoLoad
\* MongoLoad.InsertDocument: count the document, call InsertOne, observe
\* the latency, and on an error count the failure.  `ok` is the database's
\* answer.  The id returned is InsertResult(ok).
InsertResult(ok) == IF ok THEN nextId ELSE NoId

\* InsertDocument without the operationFailure increment of line 221.
InsertDocumentUncounted(ok) ==
    /\ documentCounter' = documentCounter + 1
    /\ opLatency' = [opLatency EXCEPT !.insert = @ + 1]
    /\ opFailure' = opFailure
    /\ nextId' = IF ok THEN nextId + 1 ELSE nextId
    /\ insertedIds' = IF ok THEN insertedIds \cup {nextId} ELSE insertedIds
    /\ dbCalls' = [dbCalls EXCEPT !.insert = @ + 1]
    /\ dbErrors' = IF ok THEN dbErrors ELSE [dbErrors EXCEPT !.insert = @ + 1]

InsertDocument(ok) ==
    /\ documentCounter' = documentCounter + 1
    /\ opLatency' = [opLatency EXCEPT !.insert = @ + 1]
    /\ opFailure' = IF ok THEN opFailure
                    ELSE [opFailure EXCEPT !.insert = @ + 1]
    /\ nextId' = IF ok THEN nextId + 1 ELSE nextId
    /\ insertedIds' = IF ok THEN insertedIds \cup {nextId} ELSE insertedIds
    /\ dbCalls' = [dbCalls EXCEPT !.insert = @ + 1]
    /\ dbErrors' = IF ok THEN dbErrors ELSE [dbErrors EXCEPT !.insert = @ + 1]

\* MongoLoad.InsertDocuments: one InsertMany of n documents.  The document
\* counter grows by n, one latency is observed, and on an error the failure
\* counter grows by n = len(documents).
InsertDocuments(n, ok) ==
    /\ documentCounter' = documentCounter + n
    /\ opLatency' = [opLatency EXCEPT !.insert = @ + 1]
    /\ opFailure' = IF ok THEN opFailure
                    ELSE [opFailure EXCEPT !.insert = @ + n]
    /\ nextId' = IF ok THEN nextId + n ELSE nextId
    /\ insertedIds' = IF ok THEN insertedIds \cup (nextId..(nextId + n - 1))
                      ELSE insertedIds
    /\ dbCalls' = [dbCalls EXCEPT !.insert = @ + 1]
    /\ dbErrors' = IF ok THEN dbErrors ELSE [dbErrors EXCEPT !.insert = @ + 1]

\* MongoLoad.ReadDocument: ObjectIDFromHex(id) fails for an id that is not
\* an ObjectID's hex form; that is counted as a failure and returns before
\* any latency is observed.  Otherwise FindOne is called, its latency
\* observed and its error, if any, counted.
ValidHex(id) == id # NoId

\* ReadDocument observing a latency on the return of line 241 too, where no
\* FindOne has been called.
ReadDocumentObservesAlways(id, ok) ==
    /\ opLatency' = [opLatency EXCEPT !.read = @ + 1]
    /\ opFailure' = IF ValidHex(id) /\ ok THEN opFailure
                    ELSE [opFailure EXCEPT !.read = @ + 1]
    /\ dbCalls' = IF ValidHex(id) THEN [dbCalls EXCEPT !.read = @ + 1]
                  ELSE dbCalls
    /\ dbErrors' = IF ValidHex(id) /\ ~ok
                   THEN [dbErrors EXCEPT !.read = @ + 1] ELSE dbErrors
    /\ UNCHANGED <<documentCounter, nextId, insertedIds>>

\* ReadDocument without the operationFailure increment of line 240.
ReadDocumentParseUncounted(id, ok) ==
    /\ opLatency' = IF ValidHex(id) THEN [opLatency EXCEPT !.read = @ + 1]
                    ELSE opLatency
    /\ opFailure' = IF ValidHex(id) /\ ~ok
                    THEN [opFailure EXCEPT !.read = @ + 1] ELSE opFailure
    /\ dbCalls' = IF ValidHex(id) THEN [dbCalls EXCEPT !.read = @ + 1]
                  ELSE dbCalls
    /\ dbErrors' = IF ValidHex(id) /\ ~ok
                   THEN [dbErrors EXCEPT !.read = @ + 1] ELSE dbErrors
    /\ UNCHANGED <<documentCounter, nextId, insertedIds>>

ReadDocument(id, ok) ==
    /\ opLatency' = IF ValidHex(id) THEN [opLatency EXCEPT !.read = @ + 1]
                    ELSE opLatency
    /\ opFailure' = IF ValidHex(id) /\ ok THEN opFailure
                    ELSE [opFailure EXCEPT !.read = @ + 1]
    /\ dbCalls' = IF ValidHex(id) THEN [dbCalls EXCEPT !.read = @ + 1]
                  ELSE dbCalls
    /\ dbErrors' = IF ValidHex(id) /\ ~ok
                   THEN [dbErrors EXCEPT !.read = @ + 1] ELSE dbErrors
    /\ UNCHANGED <<documentCounter, nextId, insertedIds>>

\* ------------------------------------------------------------- the clock
\* Time passes for every timer at once.  A send on an unbuffered channel to
\* a goroutine waiting in a select on it is completed by the sender at once,
\* so no time passes while the coordinator is at its send on the pusher's
\* exit channel and the pusher is at its select.
Tick ==
    /\ Alive
    /\ ~(pushEnabled /\ coordPc = "cleanup" /\ pusherPc = "select")
    /\ \/ Running(engineTimer)
       \/ Running(pushTimer)
       \/ \E w \in Writers : Running(wTimer[w])
       \/ \E r \in Readers : Running(rTimer[r]) \/ rSleep[r] > 0
    /\ engineTimer' = Elapse(engineTimer)
    /\ pushTimer' = Elapse(pushTimer)
    /\ wTimer' = [w \in Writers |-> Elapse(wTimer[w])]
    /\ rTimer' = [r \in Readers |-> Elapse(rTimer[r])]
    /\ rSleep' = [r \in Readers |-> IF rSleep[r] > 0 THEN rSleep[r] - 1 ELSE 0]
    /\ UNCHANGED <<cfgVars, resVars, fatal, coordPc, spawnedW, spawnedR, ctxCancelled,
                   loadWg, utilWg, docs, srcVars, pusherPc, pushCount, gateway,
                   signalWait, wpc,
                   wHeld, wId, rpc, rItem, queueVars, dbVars>>

\* ------------------------------------------------- InsertOneRoutine
\* Lines 355-357: the routine starts and creates its timeout channel.
W_Start(w) ==
    /\ Alive
    /\ wpc[w] = "start"
    /\ wTimer' = [wTimer EXCEPT ![w] = After(TestDuration)]
    /\ wpc' = [wpc EXCEPT ![w] = "waitFirst"]
    /\ UNCHANGED <<cfgVars, resVars, fatal, coordVars, loadWg, utilWg, docs,
                   srcVars, pushVars, wHeld, wId, readerVars, queueVars,
                   dbVars>>

\* Line 365: document := <-docs blocks until a document is there.
W_FirstDocument(w) ==
    /\ Alive
    /\ wpc[w] = "waitFirst"
    /\ docs # <<>>
    /\ wHeld' = [wHeld EXCEPT ![w] = Head(docs)]
    /\ docs' = Tail(docs)
    /\ wpc' = [wpc EXCEPT ![w] = "select"]
    /\ UNCHANGED <<cfgVars, resVars, fatal, coordVars, loadWg, utilWg, srcVars,
                   pushVars, wTimer, wId, readerVars, queueVars, dbVars>>

\* W_SelectTimeout of a routine without the `defer waitGroup.Done()` of
\* line 355.
W_SelectTimeoutNoDone(w) ==
    /\ Alive
    /\ wpc[w] = "select"
    /\ Ready(wTimer[w])
    /\ wpc' = [wpc EXCEPT ![w] = "exit"]
    /\ UNCHANGED <<cfgVars, resVars, fatal, coordVars, loadWg, utilWg, docs,
                   srcVars, pushVars, wTimer, wHeld, wId, readerVars,
                   queueVars, dbVars>>

\* Lines 369-372, case <-timeout: return, and the deferred waitGroup.Done().
W_SelectTimeout(w) ==
    /\ Alive
    /\ wpc[w] = "select"
    /\ Ready(wTimer[w])
    /\ wpc' = [wpc EXCEPT ![w] = "exit"]
    /\ loadWg' = loadWg - 1
    /\ UNCHANGED <<cfgVars, resVars, fatal, coordVars, utilWg, docs, srcVars,
                   pushVars, wTimer, wHeld, wId, readerVars, queueVars,
                   dbVars>>

\* Lines 369, 373-374, case document = <-docs: a new document is taken.
\* The case is chosen among the ready ones, so it may be taken while the
\* timeout channel is ready too.
W_SelectDocument(w) ==
    /\ Alive
    /\ wpc[w] = "select"
    /\ docs # <<>>
    /\ opLatency.insert < MaxInserts
    /\ wHeld' = [wHeld EXCEPT ![w] = Head(docs)]
    /\ docs' = Tail(docs)
    /\ wpc' = [wpc EXCEPT ![w] = "insert"]
    /\ UNCHANGED <<cfgVars, resVars, fatal, coordVars, loadWg, utilWg, srcVars,
                   pushVars, wTimer, wId, readerVars, queueVars, dbVars>>

\* The select of lines 369-376 without its default case: the writer waits
\* until the timeout or a document is ready.
W_SelectNoDefault(w) ==
    /\ Alive
    /\ wpc[w] = "select"
    /\ FALSE
    /\ UNCHANGED vars

\* Lines 369, 375, default: taken only when no other case is ready.
W_SelectDefault(w) ==
    /\ Alive
    /\ wpc[w] = "select"
    /\ ~Ready(wTimer[w])
    /\ docs = <<>>
    /\ opLatency.insert < MaxInserts
    /\ wpc' = [wpc EXCEPT ![w] = "insert"]
    /\ UNCHANGED <<cfgVars, resVars, fatal, coordVars, loadWg, utilWg, docs,
                   srcVars, pushVars, wTimer, wHeld, wId, readerVars,
                   queueVars, dbVars>>

\* W_Insert without the `continue` of line 386: a failed insert goes on to
\* the Enqueue.
W_InsertNoContinue(w) ==
    /\ Alive
    /\ wpc[w] = "insert"
    /\ \E ok \in BOOLEAN :
        /\ InsertDocument(ok)
        /\ wId' = [wId EXCEPT ![w] = InsertResult(ok)]
        /\ wpc' = [wpc EXCEPT ![w] = "enqueue"]
    /\ UNCHANGED <<cfgVars, resVars, fatal, coordVars, loadWg, utilWg, docs,
                   srcVars, pushVars, wTimer, wHeld, readerVars, queueVars>>

\* W_Insert with `return` in place of the `continue` of line 386: a failed
\* insert ends the routine, with the deferred waitGroup.Done().
W_InsertReturnsOnFailure(w) ==
    /\ Alive
    /\ wpc[w] = "insert"
    /\ \E ok \in BOOLEAN :
        /\ InsertDocument(ok)
        /\ wId' = [wId EXCEPT ![w] = InsertResult(ok)]
        /\ wpc' = [wpc EXCEPT ![w] = IF ok THEN "enqueue" ELSE "exit"]
        /\ loadWg' = IF ok THEN loadWg ELSE loadWg - 1
    /\ UNCHANGED <<cfgVars, resVars, fatal, coordVars, utilWg, docs,
                   srcVars, pushVars, wTimer, wHeld, readerVars, queueVars>>

\* Lines 379-387: InsertDocument(document); on failure `continue`.
W_Insert(w) ==
    /\ Alive
    /\ wpc[w] = "insert"
    /\ \E ok \in BOOLEAN :
        /\ InsertDocument(ok)
        /\ wId' = [wId EXCEPT ![w] = InsertResult(ok)]
        /\ wpc' = [wpc EXCEPT ![w] = IF ok THEN "enqueue" ELSE "select"]
    /\ UNCHANGED <<cfgVars, resVars, fatal, coordVars, loadWg, utilWg, docs,
                   srcVars, pushVars, wTimer, wHeld, readerVars, queueVars>>

\* Lines 388-392: q.Enqueue(MongoDocument{Id: id, ...}); the call returns
\* nothing, and the loop goes on.
W_Enqueue(w) ==
    /\ Alive
    /\ wpc[w] = "enqueue"
    /\ \E ok \in BOOLEAN : QueueEnqueue(MongoDocument(wId[w]), ok)
    /\ wpc' = [wpc EXCEPT ![w] = "select"]
    /\ UNCHANGED <<lastCall, cfgVars, resVars, fatal, coordVars, loadWg, utilWg, docs,
                   srcVars, pushVars, wTimer, wHeld, wId, readerVars, dbVars>>


\* --------------------------------------------------- ReadOneRoutine
\* Line 298: the first q.Dequeue(); an item goes to line 310, nil to the
\* polling loop of lines 300-308.
R_First(r) ==
    /\ Alive
    /\ rpc[r] = "start"
    /\ \E ok \in BOOLEAN :
        LET nextItem == QueueDequeueResult(ok) IN
        /\ rItem' = [rItem EXCEPT ![r] = nextItem]
        /\ rpc' = [rpc EXCEPT ![r] = IF nextItem = Nil THEN "poll" ELSE "arm"]
        /\ QueueDequeue(ok)
    /\ UNCHANGED <<lastCall, cfgVars, resVars, fatal, coordVars, loadWg, utilWg, docs,
                   srcVars, pushVars, writerVars, rTimer, rSleep, dbVars>>

\* Lines 301-307: q.Dequeue() in the polling loop; an item ends the loop,
\* nil leads to time.Sleep(1 * time.Second).  No timeout is looked at here.
R_Poll(r) ==
    /\ Alive
    /\ rpc[r] = "poll"
    /\ \E ok \in BOOLEAN :
        LET nextItem == QueueDequeueResult(ok) IN
        /\ rItem' = [rItem EXCEPT ![r] = nextItem]
        /\ rpc' = [rpc EXCEPT ![r] = IF nextItem = Nil THEN "sleep" ELSE "arm"]
        /\ rSleep' = [rSleep EXCEPT ![r] = IF nextItem = Nil THEN 1 ELSE @]
        /\ QueueDequeue(ok)
    /\ UNCHANGED <<lastCall, cfgVars, resVars, fatal, coordVars, loadWg, utilWg, docs,
                   srcVars, pushVars, writerVars, rTimer, dbVars>>

\* Line 307: the sleep is over; the loop condition is evaluated again.
R_Wake(r) ==
    /\ Alive
    /\ rpc[r] = "sleep"
    /\ rSleep[r] = 0
    /\ rpc' = [rpc EXCEPT ![r] = "poll"]
    /\ UNCHANGED <<cfgVars, resVars, fatal, coordVars, loadWg, utilWg, docs,
                   srcVars, pushVars, writerVars, rTimer, rItem, rSleep,
                   queueVars, dbVars>>

\* Line 317: timeout := time.After(m.options.TestDuration), created once
\* the first item is held.
R_Arm(r) ==
    /\ Alive
    /\ rpc[r] = "arm"
    /\ rTimer' = [rTimer EXCEPT ![r] = After(TestDuration)]
    /\ rpc' = [rpc EXCEPT ![r] = "check"]
    /\ UNCHANGED <<cfgVars, resVars, fatal, coordVars, loadWg, utilWg, docs,
                   srcVars, pushVars, writerVars, rItem, rSleep, queueVars,
                   dbVars>>

\* R_Check with the Dequeue as one more case beside <-timeout, as in the
\* writer's select: the iteration may go on although the timeout is ready.
R_CheckUnordered(r) ==
    /\ Alive
    /\ rpc[r] = "check"
    /\ \/ /\ Ready(rTimer[r])
          /\ rpc' = [rpc EXCEPT ![r] = "exit"]
          /\ loadWg' = loadWg - 1
       \/ /\ opLatency.read < MaxReads
          /\ rpc' = [rpc EXCEPT ![r] = "dequeue"]
          /\ UNCHANGED loadWg
    /\ UNCHANGED <<cfgVars, resVars, fatal, coordVars, utilWg, docs, srcVars,
                   pushVars, writerVars, rTimer, rItem, rSleep, queueVars,
                   dbVars>>

\* Lines 319-324: select { case <-timeout: return; default: }, with the
\* deferred waitGroup.Done() on return.
R_Check(r) ==
    /\ Alive
    /\ rpc[r] = "check"
    /\ IF Ready(rTimer[r])
       THEN /\ rpc' = [rpc EXCEPT ![r] = "exit"]
            /\ loadWg' = loadWg - 1
       ELSE /\ opLatency.read < MaxReads
            /\ rpc' = [rpc EXCEPT ![r] = "dequeue"]
            /\ UNCHANGED loadWg
    /\ UNCHANGED <<cfgVars, resVars, fatal, coordVars, utilWg, docs, srcVars,
                   pushVars, writerVars, rTimer, rItem, rSleep, queueVars,
                   dbVars>>

\* Lines 327-334: nextItem := q.Dequeue(); nil keeps the held item, after
\* the log fields of line 330 have been built with item.(MongoDocument).Id,
\* a type assertion that panics when the held item is not a MongoDocument.
R_Dequeue(r) ==
    /\ Alive
    /\ rpc[r] = "dequeue"
    /\ \E ok \in BOOLEAN :
        LET nextItem == QueueDequeueResult(ok) IN
        IF nextItem = Nil /\ rItem[r].type # "MongoDocument"
        THEN Panic
        ELSE /\ rItem' = [rItem EXCEPT ![r] =
                              IF nextItem = Nil THEN @ ELSE nextItem]
             /\ rpc' = [rpc EXCEPT ![r] = "read"]
             /\ QueueDequeue(ok)
             /\ UNCHANGED <<lastCall, cfgVars, resVars, fatal, coordVars, loadWg,
                            utilWg, docs, srcVars, pushVars, writerVars,
                            rTimer, rSleep, dbVars>>

\* Lines 336-346: case MongoDocument: m.ReadDocument(item.Id); case string:
\* json.Unmarshal into a MongoDocument i, then m.ReadDocument(i.Id).
ItemId(item) ==
    IF item.type = "MongoDocument" THEN item.Id ELSE Unmarshal(item).Id

R_Read(r) ==
    /\ Alive
    /\ rpc[r] = "read"
    /\ \E ok \in BOOLEAN : ReadDocument(ItemId(rItem[r]), ok)
    /\ rpc' = [rpc EXCEPT ![r] = "check"]
    /\ UNCHANGED <<cfgVars, resVars, fatal, coordVars, loadWg, utilWg, docs,
                   srcVars, pushVars, writerVars, rTimer, rItem, rSleep,
                   queueVars>>

\* ------------------------------------ createDocumentsFromTemplates
\* renderDocument: the template renders to one of the documents, or
\* rendering fails and log.Fatal ends the process.
DS_Render ==
    /\ Alive
    /\ docSrcPc = "render"
    /\ \/ /\ \E d \in Documents : docSrcHeld' = d
          /\ docSrcPc' = "send"
          /\ UNCHANGED <<cfgVars, resVars, fatal, coordVars, loadWg, utilWg,
                         docs, pushVars, writerVars, readerVars, queueVars,
                         dbVars>>
       \/ LogFatal

\* select { case c <- document: ... }: a select with one case is a blocking
\* send, which proceeds when the channel has room.
DS_Send ==
    /\ Alive
    /\ docSrcPc = "send"
    /\ Len(docs) < DocChanCap
    /\ docs' = Append(docs, docSrcHeld)
    /\ docSrcPc' = "render"
    /\ UNCHANGED <<cfgVars, resVars, fatal, coordVars, loadWg, utilWg,
                   docSrcHeld, pushVars, writerVars, readerVars, queueVars,
                   dbVars>>

\* ------------------------------------------- Prometheus.PushMetrics
\* Prometheus.push: pusher.Add() gathers the registry as it is now and sends
\* it to the gateway; an error is logged and nothing else.  `ok` is the
\* gateway's answer.
Push(ok) ==
    /\ pushCount' = pushCount + 1
    /\ gateway' = IF ok THEN [received |-> gateway.received + 1,
                              documents |-> documentCounter]
                  ELSE gateway

\* P_IntervalPush whose loop keeps the timer of the previous iteration.
P_IntervalPushKeepsTimer ==
    /\ Alive
    /\ pusherPc = "select"
    /\ Ready(pushTimer)
    /\ pushCount < MaxPushes
    /\ \E ok \in BOOLEAN : Push(ok)
    /\ signalWait' = IF coordPc = "cleanup" THEN signalWait + 1 ELSE signalWait
    /\ UNCHANGED <<cfgVars, resVars, fatal, coordVars, loadWg, utilWg, docs,
                   srcVars, pusherPc, pushTimer, writerVars, readerVars,
                   queueVars, dbVars>>

\* P_IntervalPush that returns, with the deferred waitGroup.Done(), when the
\* push fails.
P_IntervalPushStopsOnError ==
    /\ Alive
    /\ pusherPc = "select"
    /\ Ready(pushTimer)
    /\ pushCount < MaxPushes
    /\ \E ok \in BOOLEAN :
        /\ Push(ok)
        /\ pusherPc' = IF ok THEN pusherPc ELSE "exit"
        /\ utilWg' = IF ok THEN utilWg ELSE utilWg - 1
    /\ pushTimer' = After(PushFrequency)
    /\ signalWait' = IF coordPc = "cleanup" THEN signalWait + 1 ELSE signalWait
    /\ UNCHANGED <<cfgVars, resVars, fatal, coordVars, loadWg, docs,
                   srcVars, writerVars, readerVars, queueVars, dbVars>>

\* case <-time.After(p.Options.Frequency): p.push(pusher); the next
\* iteration creates a new timer.  signalWait counts the pushes made here
\* while the coordinator is at its send on the exit channel.
P_IntervalPush ==
    /\ Alive
    /\ pusherPc = "select"
    /\ Ready(pushTimer)
    /\ pushCount < MaxPushes
    /\ \E ok \in BOOLEAN : Push(ok)
    /\ pushTimer' = After(PushFrequency)
    /\ signalWait' = IF coordPc = "cleanup" THEN signalWait + 1 ELSE signalWait
    /\ UNCHANGED <<cfgVars, resVars, fatal, coordVars, loadWg, utilWg, docs,
                   srcVars, pusherPc, writerVars, readerVars, queueVars,
                   dbVars>>

\* case <-exit, after the receive: p.push(pusher); return, with the
\* deferred waitGroup.Done().
P_FinalPush ==
    /\ Alive
    /\ pusherPc = "exiting"
    /\ \E ok \in BOOLEAN : Push(ok)
    /\ pusherPc' = "exit"
    /\ utilWg' = utilWg - 1
    /\ UNCHANGED <<cfgVars, resVars, fatal, coordVars, loadWg, docs, srcVars,
                   pushTimer, signalWait, writerVars, readerVars, queueVars,
                   dbVars>>


\* ------------------------------------- startCmd.Run (cmd/start.go)
\* configureTelemetry: with the push gateway enabled, wg.Add(1) and
\* go metrics.PushMetrics(wg, exit), which enters its first select.
C_ConfigureTelemetry ==
    /\ Alive
    /\ coordPc = "configureTelemetry"
    /\ coordPc' = "createLoadTester"
    /\ IF pushEnabled
       THEN /\ utilWg' = utilWg + 1
            /\ pusherPc' = "select"
            /\ pushTimer' = After(PushFrequency)
       ELSE UNCHANGED <<utilWg, pusherPc, pushTimer>>
    /\ UNCHANGED <<cfgVars, resVars, fatal, spawnedW, spawnedR, engineTimer,
                   ctxCancelled, loadWg, docs, srcVars, pushCount, gateway,
                   signalWait,
                   writerVars, readerVars, queueVars, dbVars>>

\* createQueue and createLoadTester: mdb.Init connects and pings; an error
\* is log.Fatal.
C_CreateLoadTester ==
    /\ Alive
    /\ coordPc = "createLoadTester"
    /\ \/ /\ coordPc' = "generateDocuments"
          /\ UNCHANGED <<cfgVars, resVars, fatal, spawnedW, spawnedR,
                         engineTimer, ctxCancelled, loadWg, utilWg, docs,
                         srcVars, pushVars, writerVars, readerVars,
                         queueVars, dbVars>>
       \/ LogFatal

\* generateDocuments: parse the templates (an error is log.Fatal), then
\* go createDocumentsFromTemplates(...); startLoadGeneration is entered.
C_GenerateDocuments ==
    /\ Alive
    /\ coordPc = "generateDocuments"
    /\ \/ /\ coordPc' = "spawn"
          /\ docSrcPc' = "render"
          /\ engineTimer' = After(TestDuration)
          /\ UNCHANGED <<cfgVars, resVars, fatal, spawnedW, spawnedR,
                         ctxCancelled, loadWg, utilWg, docs, docSrcHeld,
                         pushVars, writerVars, readerVars, queueVars, dbVars>>
       \/ LogFatal

\* startLoadGeneration, lines 262-265: wg.Add(1); go InsertOneRoutine.
C_SpawnWriter ==
    /\ Alive
    /\ coordPc = "spawn"
    /\ spawnedW < writes
    /\ spawnedW' = spawnedW + 1
    /\ loadWg' = loadWg + 1
    /\ wpc' = [wpc EXCEPT ![spawnedW + 1] = "start"]
    /\ UNCHANGED <<cfgVars, resVars, fatal, coordPc, spawnedR, engineTimer,
                   ctxCancelled, utilWg, docs, srcVars, pushVars, wTimer,
                   wHeld, wId, readerVars, queueVars, dbVars>>

\* startLoadGeneration, lines 266-269: wg.Add(1); go ReadOneRoutine.
C_SpawnReader ==
    /\ Alive
    /\ coordPc = "spawn"
    /\ spawnedW = writes
    /\ spawnedR < reads
    /\ spawnedR' = spawnedR + 1
    /\ loadWg' = loadWg + 1
    /\ rpc' = [rpc EXCEPT ![spawnedR + 1] = "start"]
    /\ UNCHANGED <<cfgVars, resVars, fatal, coordPc, spawnedW, engineTimer,
                   ctxCancelled, utilWg, docs, srcVars, pushVars,
                   writerVars, rTimer, rItem, rSleep, queueVars, dbVars>>

\* startLoadGeneration, line 270: wg.Wait() returns at zero.
C_LoadWait ==
    /\ Alive
    /\ coordPc = "spawn"
    /\ spawnedW = writes
    /\ spawnedR = reads
    /\ loadWg = 0
    /\ coordPc' = "cleanup"
    /\ UNCHANGED <<cfgVars, resVars, fatal, spawnedW, spawnedR, engineTimer,
                   ctxCancelled, loadWg, utilWg, docs, srcVars, pushVars,
                   writerVars, readerVars, queueVars, dbVars>>

\* Lines 313-315 with the gateway enabled: pushGatewayExitChannel <- true.
\* The channel is unbuffered: the send completes when the pusher's select
\* takes its case <-exit.
C_SignalPusher ==
    /\ Alive
    /\ coordPc = "cleanup"
    /\ pushEnabled
    /\ pusherPc = "select"
    /\ pusherPc' = "exiting"
    /\ coordPc' = "utilWait"
    /\ UNCHANGED <<cfgVars, resVars, fatal, spawnedW, spawnedR, engineTimer,
                   ctxCancelled, loadWg, utilWg, docs, srcVars, pushTimer,
                   pushCount, gateway, signalWait, writerVars, readerVars,
                   queueVars, dbVars>>

\* The send made although the gateway is disabled: no pusher was started,
\* so nothing ever receives.
C_SkipPusherSends ==
    /\ Alive
    /\ coordPc = "cleanup"
    /\ ~pushEnabled
    /\ pusherPc = "select"
    /\ pusherPc' = "exiting"
    /\ coordPc' = "utilWait"
    /\ UNCHANGED <<cfgVars, resVars, fatal, spawnedW, spawnedR, engineTimer,
                   ctxCancelled, loadWg, utilWg, docs, srcVars, pushTimer,
                   pushCount, gateway, signalWait, writerVars, readerVars,
                   queueVars, dbVars>>

\* Lines 313-315 with the gateway disabled: nothing is sent.
C_SkipPusher ==
    /\ Alive
    /\ coordPc = "cleanup"
    /\ ~pushEnabled
    /\ coordPc' = "utilWait"
    /\ UNCHANGED <<cfgVars, resVars, fatal, spawnedW, spawnedR, engineTimer,
                   ctxCancelled, loadWg, utilWg, docs, srcVars, pushVars,
                   writerVars, readerVars, queueVars, dbVars>>

\* Line 317: wg.Wait().
C_UtilWait ==
    /\ Alive
    /\ coordPc = "utilWait"
    /\ utilWg = 0
    /\ coordPc' = "cancel"
    /\ UNCHANGED <<cfgVars, resVars, fatal, spawnedW, spawnedR, engineTimer,
                   ctxCancelled, loadWg, utilWg, docs, srcVars, pushVars,
                   writerVars, readerVars, queueVars, dbVars>>

\* Line 318: cancel(); Run returns, the deferred
\* close(telemetry.pushGatewayExitChannel) of line 296 runs, and the
\* process ends.
C_Cancel ==
    /\ Alive
    /\ coordPc = "cancel"
    /\ ctxCancelled' = TRUE
    /\ closedChans' = closedChans \cup {"exit"}
    /\ coordPc' = "done"
    /\ UNCHANGED <<cfgVars, results, resultsOpen, resultsQueue, grPc, sent,
                   fatal, spawnedW, spawnedR, engineTimer,
                   loadWg, utilWg, docs, srcVars, pushVars, writerVars,
                   readerVars, queueVars, dbVars>>

\* ------------------------------------------------------ specification
\* The process after construction, but for the configuration and the Redis
\* list, which lives on the server.
InitCommon ==
    /\ pushEnabled \in BOOLEAN
    /\ fatal = FALSE
    /\ spawnedW = 0
    /\ spawnedR = 0
    /\ loadWg = 0
    /\ utilWg = 0
    /\ engineTimer = NoTimer
    /\ ctxCancelled = FALSE
    /\ docs = <<>>
    /\ docSrcPc = "idle"
    /\ docSrcHeld = 1
    /\ pusherPc = "idle"
    /\ pushTimer = NoTimer
    /\ pushCount = 0
    /\ wpc = [w \in Writers |-> "idle"]
    /\ wTimer = [w \in Writers |-> NoTimer]
    /\ wHeld = [w \in Writers |-> 1]
    /\ wId = [w \in Writers |-> NoId]
    /\ rpc = [r \in Readers |-> "idle"]
    /\ rTimer = [r \in Readers |-> NoTimer]
    /\ rItem = [r \in Readers |-> Nil]
    /\ rSleep = [r \in Readers |-> 0]
    /\ queue = <<>>
    /\ queueSize = 0
    /\ queueError = [enqueue |-> 0, dequeue |-> 0]
    /\ dequeued = <<>>
    /\ lastCall = NoCall
    /\ nextId = 1
    /\ insertedIds = {}
    /\ enqueued = <<>>
    /\ documentCounter = 0
    /\ opLatency = [insert |-> 0, read |-> 0]
    /\ opFailure = [insert |-> 0, read |-> 0]
    /\ dbCalls = [insert |-> 0, read |-> 0]
    /\ dbErrors = [insert |-> 0, read |-> 0]
    /\ gateway = [received |-> 0, documents |-> 0]
    /\ signalWait = 0
    /\ results = <<>>
    /\ resultsOpen = TRUE
    /\ resultsQueue = <<>>
    /\ grPc = "idle"
    /\ sent = <<>>
    /\ closedChans = {}

\* A run with the in-process queue (queue.redis.enable is false).
Init ==
    /\ InitCommon
    /\ redisList = <<>>
    /\ redisEnabled = FALSE
    /\ writes \in 0..MaxWriters
    /\ reads \in 0..MaxReaders
    /\ writes + reads + (IF pushEnabled THEN 1 ELSE 0) <= MaxTasks
    /\ coordPc = "configureTelemetry"

\* A run with the Redis queue (queue.redis.enable is true).
InitRedis ==
    /\ InitCommon
    /\ redisList = <<>>
    /\ redisEnabled = TRUE
    /\ writes \in 0..MaxWriters
    /\ reads \in 0..MaxReaders
    /\ writes + reads + (IF pushEnabled THEN 1 ELSE 0) <= MaxTasks
    /\ coordPc = "configureTelemetry"

WriterStep(w) ==
    \/ W_Start(w)
    \/ W_FirstDocument(w)
    \/ W_SelectTimeout(w)
    \/ W_SelectDocument(w)
    \/ W_SelectDefault(w)
    \/ W_Insert(w)
    \/ W_Enqueue(w)

ReaderStep(r) ==
    \/ R_First(r)
    \/ R_Poll(r)
    \/ R_Wake(r)
    \/ R_Arm(r)
    \/ R_Check(r)
    \/ R_Dequeue(r)
    \/ R_Read(r)

CoordinatorStep ==
    \/ C_ConfigureTelemetry
    \/ C_CreateLoadTester
    \/ C_GenerateDocuments
    \/ C_SpawnWriter
    \/ C_SpawnReader
    \/ C_LoadWait
    \/ C_SignalPusher
    \/ C_SkipPusher
    \/ C_UtilWait
    \/ C_Cancel

Next ==
    \/ Tick
    \/ CoordinatorStep
    \/ DS_Render
    \/ DS_Send
    \/ P_IntervalPush
    \/ P_FinalPush
    \/ \E w \in Writers : WriterStep(w)
    \/ \E r \in Readers : ReaderStep(r)

Spec == Init /\ [][Next]_vars

SpecRedis == InitRedis /\ [][Next]_vars

\* A run of several writers and several readers on the in-process queue,
\* without the telemetry pusher.
InitConcurrent ==
    /\ InitCommon
    /\ redisList = <<>>
    /\ redisEnabled = FALSE
    /\ pushEnabled = FALSE
    /\ writes = MaxWriters
    /\ reads = MaxReaders
    /\ coordPc = "configureTelemetry"

NextConcurrent ==
    \/ Tick
    \/ C_ConfigureTelemetry
    \/ C_CreateLoadTester
    \/ C_GenerateDocuments
    \/ C_SpawnWriter
    \/ C_SpawnReader
    \/ C_LoadWait
    \/ C_SkipPusher
    \/ C_UtilWait
    \/ C_Cancel
    \/ DS_Render
    \/ DS_Send
    \/ \E w \in Writers : WriterStep(w)
    \/ \E r \in Readers : ReaderStep(r)

SpecConcurrent == InitConcurrent /\ [][NextConcurrent]_vars


\* The scheduling the Go runtime gives: the clock advances, and a goroutine
\* that can take a step eventually takes one.
Fairness ==
    /\ WF_vars(Tick)
    /\ WF_vars(CoordinatorStep)
    /\ WF_vars(DS_Render \/ DS_Send)
    /\ WF_vars(P_IntervalPush \/ P_FinalPush)
    /\ \A w \in Writers : WF_vars(WriterStep(w))
    /\ \A r \in Readers : WF_vars(ReaderStep(r))

FairSpec == Spec /\ Fairness

\* ------------------- the earlier revision of startCmd.Run, updateDocument
\* startCmd.Run, lines 91-93: mdb.Init; an error is log.Fatal.
L_Init ==
    /\ Alive
    /\ coordPc = "init"
    /\ \/ /\ coordPc' = "startUtility"
          /\ UNCHANGED <<cfgVars, resVars, fatal, spawnedW, spawnedR,
                         engineTimer, ctxCancelled, loadWg, utilWg, docs,
                         srcVars, pushVars, writerVars, readerVars,
                         queueVars, dbVars>>
       \/ LogFatal

\* Lines 116-127: utilityWaitGroup.Add(1); go updateDocument(...); with the
\* gateway enabled utilityWaitGroup.Add(1); go metrics.PushMetrics(...).
L_StartUtility ==
    /\ Alive
    /\ coordPc = "startUtility"
    /\ coordPc' = "spawn"
    /\ docSrcPc' = "loop"
    /\ engineTimer' = After(TestDuration)
    /\ IF pushEnabled
       THEN /\ utilWg' = utilWg + 2
            /\ pusherPc' = "select"
            /\ pushTimer' = After(PushFrequency)
       ELSE /\ utilWg' = utilWg + 1
            /\ UNCHANGED <<pusherPc, pushTimer>>
    /\ UNCHANGED <<cfgVars, resVars, fatal, spawnedW, spawnedR, ctxCancelled,
                   loadWg, docs, docSrcHeld, pushCount, gateway,
                   signalWait, writerVars,
                   readerVars, queueVars, dbVars>>

\* Line 134: loadWaitGroup.Wait().
L_LoadWait ==
    /\ Alive
    /\ coordPc = "spawn"
    /\ spawnedW = writes
    /\ loadWg = 0
    /\ coordPc' = "inspect"
    /\ UNCHANGED <<cfgVars, resVars, fatal, spawnedW, spawnedR, engineTimer,
                   ctxCancelled, loadWg, utilWg, docs, srcVars, pushVars,
                   writerVars, readerVars, queueVars, dbVars>>

\* Lines 140-155: q.Size() and q.Head() are logged, one item is dequeued.
L_Inspect ==
    /\ Alive
    /\ coordPc = "inspect"
    /\ \E ok \in BOOLEAN : QueueDequeue(ok)
    /\ coordPc' = "drain"
    /\ UNCHANGED <<lastCall, cfgVars, resVars, fatal, spawnedW, spawnedR, engineTimer,
                   ctxCancelled, loadWg, utilWg, docs, srcVars, pushVars,
                   writerVars, readerVars, dbVars>>

\* Lines 157-160: for q.Head() != nil { item := q.Dequeue() }.
L_Drain ==
    /\ Alive
    /\ coordPc = "drain"
    /\ IF MemHead # Nil
       THEN /\ MemDequeue
            /\ UNCHANGED <<coordPc, lastCall>>
       ELSE /\ coordPc' = "sendDone"
            /\ UNCHANGED queueVars
    /\ UNCHANGED <<cfgVars, resVars, fatal, spawnedW, spawnedR, engineTimer,
                   ctxCancelled, loadWg, utilWg, docs, srcVars, pushVars,
                   writerVars, readerVars, dbVars>>

\* Run returns after utilityWaitGroup.Wait(): the deferred calls run, last
\* first: close(pgExit), close(doneChannel), close(docChannel), cancel()
\* (lines 71, 106, 113, 114; in the first revision 265, 287, 294, 295), and
\* the process ends.
L_Return ==
    /\ Alive
    /\ coordPc = "cancel"
    /\ closedChans' = closedChans \cup {"exit", "done", "docs"}
    /\ ctxCancelled' = TRUE
    /\ coordPc' = "done"
    /\ UNCHANGED <<cfgVars, results, resultsOpen, resultsQueue, grPc, sent,
                   fatal, spawnedW, spawnedR, engineTimer,
                   loadWg, utilWg, docs, srcVars, pushVars, writerVars,
                   readerVars, queueVars, dbVars>>

\* updateDocument, case docs <- documents[0]: ready when the channel has
\* room, and taken among the ready cases, so also while done is ready.
UD_Send ==
    /\ Alive
    /\ docSrcPc = "loop"
    /\ Len(docs) < DocChanCap
    /\ docs' = Append(docs, docSrcHeld)
    /\ UNCHANGED <<cfgVars, resVars, fatal, coordVars, loadWg, utilWg, srcVars,
                   pushVars, writerVars, readerVars, queueVars, dbVars>>

\* updateDocument, case <-done: return, with the deferred wg.Done(); done
\* is unbuffered, so this is also the completion of the coordinator's
\* doneChannel <- true of line 163.
UD_Done ==
    /\ Alive
    /\ docSrcPc = "loop"
    /\ coordPc = "sendDone"
    /\ docSrcPc' = "exit"
    /\ utilWg' = utilWg - 1
    /\ coordPc' = "cleanup"
    /\ UNCHANGED <<cfgVars, resVars, fatal, spawnedW, spawnedR, engineTimer,
                   ctxCancelled, loadWg, docs, docSrcHeld, pushVars,
                   writerVars, readerVars, queueVars, dbVars>>

\* updateDocument, default: no case is ready; the loop goes round.
UD_Default ==
    /\ Alive
    /\ docSrcPc = "loop"
    /\ coordPc # "sendDone"
    /\ Len(docs) >= DocChanCap
    /\ UNCHANGED vars

InitLegacy ==
    /\ InitCommon
    /\ redisList = <<>>
    /\ redisEnabled = FALSE
    /\ writes = MaxWriters
    /\ reads = 0
    /\ coordPc = "init"

NextLegacy ==
    \/ Tick
    \/ L_Init
    \/ L_StartUtility
    \/ C_SpawnWriter
    \/ L_LoadWait
    \/ L_Inspect
    \/ L_Drain
    \/ C_SignalPusher
    \/ C_SkipPusher
    \/ C_UtilWait
    \/ L_Return
    \/ UD_Send
    \/ UD_Done
    \/ UD_Default
    \/ P_IntervalPush
    \/ P_FinalPush
    \/ \E w \in Writers : WriterStep(w)

SpecLegacy == InitLegacy /\ [][NextLegacy]_vars

\* The same scheduling for the earlier revision: the coordinator, the
\* document producer, the pusher and each writer are goroutines that
\* eventually take a step they can take.
LegacyCoordinatorStep ==
    \/ L_Init
    \/ L_StartUtility
    \/ C_SpawnWriter
    \/ L_LoadWait
    \/ L_Inspect
    \/ L_Drain
    \/ C_SignalPusher
    \/ C_SkipPusher
    \/ C_UtilWait
    \/ L_Return

FairnessLegacy ==
    /\ WF_vars(Tick)
    /\ WF_vars(LegacyCoordinatorStep)
    /\ WF_vars(UD_Send \/ UD_Done \/ UD_Default)
    /\ WF_vars(P_IntervalPush \/ P_FinalPush)
    /\ \A w \in Writers : WF_vars(WriterStep(w))

FairSpecLegacy == SpecLegacy /\ FairnessLegacy


\* ------------------------- the MongoLoad operations, called one by one
\* Any sequence of calls of InsertDocument, InsertDocuments and ReadDocument
\* on one MongoLoad, with any answers of the database.  Calls grows with
\* every call (a failed FindOne counts twice); calls are made while it is
\* below MaxCalls.
Calls == opLatency.insert + opLatency.read + opFailure.read

Op_InsertDocument ==
    /\ Calls < MaxCalls
    /\ \E ok \in BOOLEAN : InsertDocument(ok)
    /\ UNCHANGED <<cfgVars, resVars, fatal, coordVars, loadWg, utilWg, docs, srcVars,
                   pushVars, writerVars, readerVars, queueVars>>

Op_InsertDocuments ==
    /\ Calls < MaxCalls
    /\ \E n \in 1..MaxBatch, ok \in BOOLEAN : InsertDocuments(n, ok)
    /\ UNCHANGED <<cfgVars, resVars, fatal, coordVars, loadWg, utilWg, docs, srcVars,
                   pushVars, writerVars, readerVars, queueVars>>

Op_ReadDocument ==
    /\ Calls < MaxCalls
    /\ \E id \in {NoId} \cup insertedIds, ok \in BOOLEAN : ReadDocument(id, ok)
    /\ UNCHANGED <<cfgVars, resVars, fatal, coordVars, loadWg, utilWg, docs, srcVars,
                   pushVars, writerVars, readerVars, queueVars>>

InitOps ==
    /\ InitCommon
    /\ redisList = <<>>
    /\ redisEnabled = FALSE
    /\ writes = 0
    /\ reads = 0
    /\ coordPc = "api"

NextOps ==
    \/ Op_InsertDocument
    \/ Op_InsertDocuments
    \/ Op_ReadDocument

SpecOps == InitOps /\ [][NextOps]_vars

\* ------------------------------ the Queue's operations, called one by one
\* Any sequence of at most MaxQueueCalls calls of Enqueue, Dequeue, Head and
\* Size by one caller on the queue createQueue made, in-process or Redis,
\* with any answers of the transport.  lastCall keeps the call, what it
\* returned, and which call came before it.
Items == {MongoDocument(i) : i \in 1..MaxItems} \cup {Unserializable}

Call_Enqueue ==
    /\ lastCall.n < MaxQueueCalls
    /\ \E item \in Items, ok \in BOOLEAN :
        /\ QueueEnqueue(item, ok)
        /\ lastCall' = [n |-> lastCall.n + 1, before |-> lastCall.op,
                        op |-> "Enqueue", arg |-> item, result |-> Nil]
    /\ UNCHANGED <<cfgVars, resVars, fatal, coordVars, loadWg, utilWg, docs, srcVars,
                   pushVars, writerVars, readerVars, dbVars>>

Call_Dequeue ==
    /\ lastCall.n < MaxQueueCalls
    /\ \E ok \in BOOLEAN :
        /\ QueueDequeue(ok)
        /\ lastCall' = [n |-> lastCall.n + 1, before |-> lastCall.op,
                        op |-> "Dequeue", arg |-> Nil,
                        result |-> QueueDequeueResult(ok)]
    /\ UNCHANGED <<cfgVars, resVars, fatal, coordVars, loadWg, utilWg, docs, srcVars,
                   pushVars, writerVars, readerVars, dbVars>>

\* Head removing the item it returns, as Dequeue does.
Call_HeadPops ==
    /\ lastCall.n < MaxQueueCalls
    /\ \E ok \in BOOLEAN :
        /\ QueueDequeue(ok)
        /\ lastCall' = [n |-> lastCall.n + 1, before |-> lastCall.op,
                        op |-> "Head", arg |-> Nil,
                        result |-> QueueDequeueResult(ok)]
    /\ UNCHANGED <<cfgVars, resVars, fatal, coordVars, loadWg, utilWg, docs, srcVars,
                   pushVars, writerVars, readerVars, dbVars>>

\* Head with the queueSize.Dec() of Dequeue.
Call_HeadCounted ==
    /\ lastCall.n < MaxQueueCalls
    /\ \E ok \in BOOLEAN :
        lastCall' = [n |-> lastCall.n + 1, before |-> lastCall.op,
                     op |-> "Head", arg |-> Nil, result |-> QueueHead(ok)]
    /\ queueSize' = queueSize - 1
    /\ UNCHANGED <<cfgVars, resVars, fatal, coordVars, loadWg, utilWg, docs, srcVars,
                   pushVars, writerVars, readerVars, dbVars, queue,
                   enqueued, queueError, redisList, dequeued>>

Call_Head ==
    /\ lastCall.n < MaxQueueCalls
    /\ \E ok \in BOOLEAN :
        lastCall' = [n |-> lastCall.n + 1, before |-> lastCall.op,
                     op |-> "Head", arg |-> Nil, result |-> QueueHead(ok)]
    /\ UNCHANGED <<cfgVars, resVars, fatal, coordVars, loadWg, utilWg, docs, srcVars,
                   pushVars, writerVars, readerVars, dbVars, queue,
                   queueSize, enqueued, queueError, redisList, dequeued>>

Call_Size ==
    /\ lastCall.n < MaxQueueCalls
    /\ \E ok \in BOOLEAN :
        lastCall' = [n |-> lastCall.n + 1, before |-> lastCall.op,
                     op |-> "Size", arg |-> Nil, result |-> QueueSize(ok)]
    /\ UNCHANGED <<cfgVars, resVars, fatal, coordVars, loadWg, utilWg, docs, srcVars,
                   pushVars, writerVars, readerVars, dbVars, queue,
                   queueSize, enqueued, queueError, redisList, dequeued>>

InitQueue ==
    /\ InitCommon
    /\ redisList = <<>>
    /\ redisEnabled \in BOOLEAN
    /\ writes = 0
    /\ reads = 0
    /\ coordPc = "api"

NextQueue ==
    \/ Call_Enqueue
    \/ Call_Dequeue
    \/ Call_Head
    \/ Call_Size

SpecQueue == InitQueue /\ [][NextQueue]_vars

\* ================================================================ claims
LoadWaitReturned == coordPc \in {"cleanup", "utilWait", "cancel", "done"}
WritersExited == spawnedW = writes /\ \A w \in 1..writes : wpc[w] = "exit"
ReadersExited == spawnedR = reads /\ \A r \in 1..reads : rpc[r] = "exit"

\* C1: every item in the Queue, every item ever enqueued and every item a
\* reader holds carries an id that a successful insert returned; a failed
\* insert enqueues nothing.
C1_QueueHoldsInsertedIds ==
    /\ \A i \in 1..Len(queue) : queue[i].Id \in insertedIds
    /\ \A i \in 1..Len(enqueued) : enqueued[i].Id \in insertedIds
    /\ \A r \in Readers : rItem[r] # Nil => rItem[r].Id \in insertedIds
    /\ Len(enqueued) <= Cardinality(insertedIds)

\* An insert has failed, an item is queued and a reader holds another.
C1_Witness ==
    /\ opFailure.insert > 0
    /\ queue # <<>>
    /\ \E r \in Readers : rItem[r] # Nil

\* C2: every run terminates: the coordinator's wait in startLoadGeneration
\* returns (or the process has ended in log.Fatal).
C2_EveryRunTerminates == <>(fatal \/ LoadWaitReturned)

\* C3: with no writer and one reader the reader performs no read, exits at
\* the deadline and the coordinator's wait returns.
C3_LoneReaderCompletes ==
    (writes = 0 /\ reads = 1) =>
        <>(fatal \/ (rpc[1] = "exit" /\ opLatency.read = 0 /\ LoadWaitReturned))

\* C4: no worker's deadline is later than the one of the run, start +
\* testDuration: a worker's timeout channel never has more time left than
\* the run has.
C4_OneSharedDeadline ==
    /\ \A w \in Writers : wTimer[w].armed => wTimer[w].left <= engineTimer.left
    /\ \A r \in Readers : rTimer[r].armed => rTimer[r].left <= engineTimer.left

\* C5: a writer whose deadline has elapsed when it is at its select begins
\* no further insert.
C5_WriterChecksDeadlineFirst ==
    [][\A w \in Writers :
          (wpc[w] = "select" /\ Ready(wTimer[w])) => wpc'[w] # "insert"]_vars

\* C6: a reader's loop iteration looks at the timeout before it dequeues: a
\* Dequeue is begun only from the check, with the timeout not ready, and a
\* reader at the check with the timeout ready exits without a Dequeue and
\* without a read.
C6_ReaderChecksDeadlineBeforeDequeue ==
    [][\A r \in Readers :
          /\ (rpc[r] = "check" /\ Ready(rTimer[r]) /\ rpc'[r] # rpc[r] /\ ~fatal')
                => /\ rpc'[r] = "exit"
                   /\ queue' = queue
                   /\ queueSize' = queueSize
                   /\ opLatency' = opLatency
          /\ (rpc'[r] = "dequeue" /\ rpc[r] # "dequeue")
                => (rpc[r] = "check" /\ ~Ready(rTimer[r]))]_vars

\* A reader has read and then left through the check.
C6_Witness == \E r \in Readers : rpc[r] = "exit" /\ opLatency.read > 0

\* C7: once all writers have exited, the number of items enqueued is the
\* number of insert attempts minus the number of failed ones.
C7_EnqueuedIsAttemptsMinusFailures ==
    WritersExited => Len(enqueued) = opLatency.insert - opFailure.insert

\* Two writers have exited after 3 attempts, 1 of them failed, and 2
\* items were enqueued.
C7_Witness ==
    /\ writes = 2
    /\ WritersExited
    /\ opLatency.insert = 3
    /\ opFailure.insert = 1
    /\ Len(enqueued) = 2

\* C8: an insert attempt that fails, single or batch, adds exactly 1 to the
\* insert failure counter, and one that succeeds adds nothing.
C8_FailureCountsOnePerAttempt ==
    [][opLatency'.insert = opLatency.insert + 1 =>
          opFailure'.insert = opFailure.insert
              + (IF insertedIds' = insertedIds THEN 1 ELSE 0)]_vars

\* C9: the shutdown signal is sent only after every writer and reader has
\* exited, every started task is registered with the completion tracker,
\* and completion is reported only after every started task has finished.
C9_CompletionAfterEveryTask ==
    /\ pusherPc \in {"exiting", "exit"} => (WritersExited /\ ReadersExited)
    /\ utilWg = (IF pusherPc \in {"select", "exiting"} THEN 1 ELSE 0)
                + (IF docSrcPc \in {"render", "send"} THEN 1 ELSE 0)
    /\ coordPc = "done" =>
          /\ WritersExited /\ ReadersExited
          /\ pusherPc \in {"idle", "exit"}
          /\ docSrcPc \in {"idle", "exit"}

\* C10: once the shutdown signal is offered to the Document Source, its
\* next loop iteration ends it, whatever the backlog of the document
\* channel: it publishes no further document.
C10_SourceStopsWithinOneIteration ==
    [][coordPc = "sendDone" => Len(docs') <= Len(docs)]_vars

\* C11: the Document Source's publish attempt never suspends: while the
\* process runs, the source always has a step it can take, also when the
\* document channel is full.
C11_PublishNeverSuspends ==
    (Alive /\ docSrcPc \in {"render", "send"}) => ENABLED (DS_Render \/ DS_Send)

\* C12: in the reader's loop no step faults; a Dequeue that returns nothing
\* leaves the reader holding the item it held and leads to the read, and
\* the read step performs a read of the held item's identifier.
C12_ReaderReusesHeldItem ==
    [][/\ coordPc' # "panic"
       /\ \A r \in Readers :
            /\ (rpc[r] = "dequeue" /\ rpc'[r] = "read" /\ dequeued' = dequeued)
                   => rItem'[r] = rItem[r]
            /\ (rpc[r] = "read" /\ rpc'[r] = "check")
                   => opLatency'.read + opFailure'.read
                          > opLatency.read + opFailure.read]_vars

\* The queue's items as MongoDocuments, whichever implementation holds them,
\* and a returned value as the item it stands for.
AsItem(v) == IF v.type = "string" THEN Unmarshal(v) ELSE v
Content ==
    IF redisEnabled THEN [i \in 1..Len(redisList) |-> AsItem(redisList[i])]
    ELSE queue
ContentHead == IF Content = <<>> THEN Nil ELSE Head(Content)

\* The step is a call on the Redis queue whose command failed in transport
\* (or, for an Enqueue, whose item could not be serialized).
TransportFailure ==
    /\ redisEnabled
    /\ \/ /\ lastCall'.op = "Enqueue"
          /\ queueError'.enqueue # queueError.enqueue
       \/ /\ lastCall'.op \in {"Dequeue", "Head"}
          /\ redisList # <<>>
          /\ lastCall'.result = Nil
       \/ /\ lastCall'.op = "Size"
          /\ lastCall'.result = -1

\* C13: the two queues are interchangeable: every call without a transport
\* (or serialization) failure returns, and changes the contents, the size
\* gauge and the error counters, as the in-process queue does, whichever
\* implementation is in use: no error is counted; Enqueue appends the item
\* and raises the gauge by one; Dequeue returns and removes the head, or
\* returns nil, and lowers the gauge by one; Head returns the head or nil;
\* Size returns the number of items.
C13_QueuesInterchangeable ==
    [][(lastCall'.n = lastCall.n + 1 /\ ~TransportFailure) =>
         /\ queueError' = queueError
         /\ lastCall'.op = "Enqueue" =>
              /\ Content' = Append(Content, lastCall'.arg)
              /\ queueSize' = queueSize + 1
         /\ lastCall'.op = "Dequeue" =>
              /\ AsItem(lastCall'.result) = ContentHead
              /\ Content' = IF Content = <<>> THEN Content ELSE Tail(Content)
              /\ queueSize' = queueSize - 1 \/ queueSize = -MaxEmptyPolls
         /\ lastCall'.op = "Head" =>
              /\ AsItem(lastCall'.result) = ContentHead
              /\ Content' = Content /\ queueSize' = queueSize
         /\ lastCall'.op = "Size" =>
              /\ lastCall'.result = Len(Content)
              /\ Content' = Content /\ queueSize' = queueSize]_vars

\* C14: under every interleaving of the writers' Enqueue calls and the
\* readers' Dequeue calls nothing enqueued is lost and nothing is handed out
\* twice: the items enqueued are, in order, the items Dequeue calls have
\* returned followed by the items still queued; no item was returned by two
\* Dequeue calls; and what a reader holds was returned by a Dequeue.
C14_NoItemLostOrDuplicated ==
    /\ enqueued = dequeued \o queue
    /\ \A i, j \in 1..Len(dequeued) : i # j => dequeued[i] # dequeued[j]
    /\ \A r \in Readers :
         rItem[r] # Nil => \E i \in 1..Len(dequeued) : dequeued[i] = rItem[r]

\* Two writers have each enqueued an item and two readers hold one each.
C14_Witness ==
    /\ writes = 2 /\ reads = 2
    /\ wId[1] # NoId /\ wId[2] # NoId
    /\ MongoDocument(wId[1]) \in {enqueued[i] : i \in 1..Len(enqueued)}
    /\ MongoDocument(wId[2]) \in {enqueued[i] : i \in 1..Len(enqueued)}
    /\ rItem[1] # Nil /\ rItem[2] # Nil /\ rItem[1] # rItem[2]

C16_SizeIsEnqueuesMinusDequeues ==
    (~redisEnabled /\ lastCall.op = "Size")
        => lastCall.result = Len(enqueued) - Len(dequeued)

\* Size() was called after three enqueues and one dequeue, none of it on an
\* empty queue, and returned 2.
C16_Witness ==
    /\ ~redisEnabled
    /\ lastCall.op = "Size" /\ lastCall.result = 2
    /\ Len(enqueued) = 3 /\ Len(dequeued) = 1
    /\ queueSize = 2

\* C17: on the in-process queue an item enqueued on an empty queue and
\* dequeued by the next call is returned as it was given.
C17_RoundTrip ==
    [][(/\ ~redisEnabled
        /\ lastCall.op = "Enqueue" /\ Len(queue) = 1
        /\ lastCall'.op = "Dequeue" /\ lastCall'.n = lastCall.n + 1)
           => lastCall'.result = lastCall.arg]_vars

\* An Enqueue on the empty in-process queue was followed by a Dequeue.
C17_Witness ==
    /\ ~redisEnabled
    /\ lastCall.n = 2 /\ lastCall.before = "Enqueue"
    /\ lastCall.op = "Dequeue"
    /\ enqueued = <<lastCall.result>> /\ queue = <<>>

\* The last call was a Head() that failed in transport.
HeadFailed ==
    /\ redisEnabled
    /\ lastCall.op = "Head"
    /\ lastCall.result = Nil
    /\ redisList # <<>>

C20_FailedEnqueueDropsItem ==
    [][/\ (/\ redisEnabled /\ lastCall'.op = "Enqueue"
           /\ lastCall'.n = lastCall.n + 1 /\ enqueued' = enqueued)
              => /\ queueError'.enqueue = queueError.enqueue + 1
                 /\ redisList' = redisList /\ queueSize' = queueSize
       /\ \A w \in Writers :
            (/\ redisEnabled /\ wpc[w] = "enqueue" /\ wpc'[w] # "enqueue"
             /\ ~fatal' /\ enqueued' = enqueued)
               => /\ queueError'.enqueue = queueError.enqueue + 1
                  /\ redisList' = redisList /\ queueSize' = queueSize
                  /\ wpc'[w] = "select"]_vars

\* A writer's first Enqueue failed, and the writer has inserted again.
C20_Witness ==
    /\ redisEnabled /\ writes = 1
    /\ queueError.enqueue = 1 /\ enqueued = <<>> /\ queueSize = 0
    /\ opLatency.insert = 2 /\ opFailure.insert = 0

\* C21: a failed insert does not end the writer: the writer whose
\* InsertDocument returned an error is back at the select of its loop, still
\* registered in the load wait group, and a writer leaves only through the
\* timeout case of that select.
C21_FailedInsertKeepsWriterLooping ==
    [][\A w \in Writers :
          /\ (wpc[w] = "insert" /\ opFailure'.insert > opFailure.insert
              /\ wpc'[w] # "insert")
                => /\ wpc'[w] = "select"
                   /\ loadWg' = loadWg
                   /\ wTimer'[w] = wTimer[w]
                   /\ wHeld'[w] = wHeld[w]
          /\ (wpc[w] # "exit" /\ wpc'[w] = "exit")
                => wpc[w] = "select" /\ Ready(wTimer[w])]_vars

\* A writer that has had a failed insert is inserting again, before its
\* deadline.
C21_Witness ==
    \E w \in Writers :
        /\ wpc[w] = "enqueue"
        /\ opFailure.insert = 1
        /\ opLatency.insert = 2
        /\ writes = 1
        /\ ~Ready(wTimer[w])

\* ------------------------------------- a Redis list other programs share
\* RedisQueue.Init neither creates nor clears the key "mdbload:queue": the
\* list is whatever the server holds, and any client of the server may have
\* pushed to it.  ForeignString is such an element: a string json.Unmarshal
\* turns into a MongoDocument whose Id is not the hex form of an ObjectID.
\* SpecRedisShared is a run of one writer and one reader on such a list.
MaxForeign == 2

ForeignString == [type |-> "string", json |-> [Id |-> NoId]]

InitRedisShared ==
    /\ InitCommon
    /\ redisList \in {[i \in 1..n |-> ForeignString] : n \in 0..MaxForeign}
    /\ redisEnabled = TRUE
    /\ writes = 1
    /\ reads = 1
    /\ coordPc = "configureTelemetry"

SpecRedisShared ==
    /\ InitRedisShared
    /\ [][Next]_vars

\* C22: every read that fails, because FindOne returned an error or because
\* the identifier is not an ObjectID's hex form, adds exactly one to the read
\* failure counter, a read that succeeds adds nothing, and in each case the
\* reader is back at the deadline check of its loop, still running.
C22_FailedReadCountsOnceAndContinues ==
    [][\A r \in Readers :
          (rpc[r] = "read" /\ rpc'[r] # "read" /\ ~fatal') =>
              LET id == ItemId(rItem[r])
                  failed == ~ValidHex(id) \/ dbErrors'.read > dbErrors.read
              IN /\ rpc'[r] = "check"
                 /\ loadWg' = loadWg
                 /\ opFailure'.read =
                        opFailure.read + (IF failed THEN 1 ELSE 0)
                 /\ opFailure'.insert = opFailure.insert]_vars

\* A reader has read an identifier that cannot be parsed and one the
\* database failed on, and is in its loop.
C22_Witness ==
    /\ \E r \in Readers : rpc[r] = "check"
    /\ reads = 1
    /\ opFailure.read = 2
    /\ dbErrors.read = 1
    /\ dbCalls.read = 1

\* C23: a fatal error (log.Fatal on a failed database connection, on
\* templates that cannot be loaded, or on a template that cannot be
\* rendered) ends the run before any writer or reader has been started.
C23_FatalBeforeWorkers ==
    [][(~fatal /\ fatal' /\ coordPc' = "fatal") =>
          spawnedW = 0 /\ spawnedR = 0]_vars

\* C24: for each kind of operation the number of latency observations
\* recorded equals the number of database calls attempted (InsertOne or
\* InsertMany for inserts, FindOne for reads), after any sequence of
\* InsertDocument, InsertDocuments and ReadDocument calls.
C24_OneObservationPerDatabaseCall ==
    /\ opLatency.insert = dbCalls.insert
    /\ opLatency.read = dbCalls.read

\* Single and batch inserts and reads have been made, with failed calls of
\* the database and a read that made no call.
C24_Witness ==
    /\ coordPc = "api"
    /\ dbCalls.insert = 2
    /\ documentCounter = 3
    /\ dbCalls.read = 1
    /\ dbErrors.read = 1
    /\ opFailure.read = 2

\* C25: after any sequence of InsertDocument and InsertDocuments calls the
\* documents_total counter equals the number of documents inserted into
\* the database.
C25_DocumentsTotalIsDocumentsInserted ==
    documentCounter = Cardinality(insertedIds)

\* C26: the pusher pushes in its loop only when the interval of the current
\* iteration has elapsed, and each such push starts a new interval; while
\* the coordinator is sending the exit signal the pusher makes at most one
\* more interval push before it takes the signal; having taken it, it makes
\* exactly one push, ends, and pushes no more.
C26_PushPerIntervalAndOnceAtShutdown ==
    [][~fatal' =>
          /\ (pusherPc = "select" /\ pushCount' # pushCount) =>
                 /\ Ready(pushTimer)
                 /\ pushCount' = pushCount + 1
                 /\ pushTimer' = After(PushFrequency)
                 /\ pusherPc' = "select"
          /\ signalWait' <= 1
          /\ (pusherPc = "select" /\ pusherPc' # "select") =>
                 /\ pusherPc' = "exiting"
                 /\ coordPc = "cleanup"
                 /\ pushCount' = pushCount
          /\ (pusherPc = "exiting" /\ pusherPc' # "exiting") =>
                 /\ pusherPc' = "exit"
                 /\ pushCount' = pushCount + 1
                 /\ utilWg' = utilWg - 1
          /\ pusherPc = "exit" =>
                 /\ pusherPc' = "exit"
                 /\ pushCount' = pushCount
                 /\ gateway' = gateway]_vars

\* The pusher has pushed on two intervals, the second while the exit signal
\* was being sent, then once more on the signal, and has ended.
C26_Witness ==
    /\ pusherPc = "exit"
    /\ pushCount = 3
    /\ signalWait = 1

\* C27: a push, failed or not, leaves the engine running, and one made in
\* the pusher's loop leaves the pusher in its loop with a new interval
\* started; a push either fails and leaves the gateway as it was, or hands
\* the gateway the metrics as they are at that moment, once: nothing of a
\* failed push is kept and sent later.
C27_FailedPushIsSkipped ==
    [][/\ pushCount' = pushCount + 1 =>
             /\ ~fatal'
             /\ coordPc' = coordPc
             /\ \/ gateway' = gateway
                \/ gateway' = [received |-> gateway.received + 1,
                               documents |-> documentCounter]
             /\ pusherPc = "select" =>
                    /\ pusherPc' = "select"
                    /\ utilWg' = utilWg
                    /\ pushTimer' = After(PushFrequency)
       /\ (gateway' # gateway /\ ~fatal') => pushCount' = pushCount + 1]_vars

\* Of two interval pushes one has failed, the other has delivered the
\* documents counted so far, and the pusher is in its loop.
C27_Witness ==
    /\ pusherPc = "select"
    /\ pushCount = 2
    /\ gateway.received = 1
    /\ documentCounter >= 1
    /\ gateway.documents = documentCounter

\* ----------- the first revision of startCmd.Run, with the results channel
\* (src/unnamed/part_004, lines 257-352).  Run starts updateDocument,
\* getResults and PushMetrics as utility routines, then the writers, which
\* send an OperationResult for every insert on the buffered results channel.
\* InsertOneRoutine(docChannel, results, wg, metrics) of that revision is not
\* part of the sources: its loop is taken from the later routine, and its
\* sending of results from the specification.
ResultsCap == 1

\* Lines 297-303: utilityWaitGroup.Add(3) and the three go statements.
RR_StartUtility ==
    /\ Alive
    /\ coordPc = "startUtility"
    /\ coordPc' = "spawn"
    /\ utilWg' = utilWg + 3
    /\ docSrcPc' = "loop"
    /\ grPc' = "loop"
    /\ pusherPc' = "select"
    /\ pushTimer' = After(PushFrequency)
    /\ engineTimer' = After(TestDuration)
    /\ UNCHANGED <<cfgVars, fatal, spawnedW, spawnedR, ctxCancelled,
                   loadWg, docs, docSrcHeld, pushCount, gateway, signalWait,
                   writerVars, readerVars, queueVars, dbVars, results,
                   resultsOpen, resultsQueue, sent, closedChans>>

\* The coordinator going on to close(results) without waiting for the
\* writers.
RR_LoadWaitEarly ==
    /\ Alive
    /\ coordPc = "spawn"
    /\ spawnedW = writes
    /\ coordPc' = "closeResults"
    /\ UNCHANGED <<cfgVars, resVars, fatal, spawnedW, spawnedR, engineTimer,
                   ctxCancelled, loadWg, utilWg, docs, srcVars, pushVars,
                   writerVars, readerVars, queueVars, dbVars>>

\* Line 310: loadWaitGroup.Wait().
RR_LoadWait ==
    /\ Alive
    /\ coordPc = "spawn"
    /\ spawnedW = writes
    /\ loadWg = 0
    /\ coordPc' = "closeResults"
    /\ UNCHANGED <<cfgVars, resVars, fatal, spawnedW, spawnedR, engineTimer,
                   ctxCancelled, loadWg, utilWg, docs, srcVars, pushVars,
                   writerVars, readerVars, queueVars, dbVars>>

\* Line 314: close(results); what the channel buffers stays receivable.
\* Line 315, doneChannel <- true, is next.
RR_CloseResults ==
    /\ Alive
    /\ coordPc = "closeResults"
    /\ resultsOpen' = FALSE
    /\ coordPc' = "sendDone"
    /\ UNCHANGED <<cfgVars, fatal, spawnedW, spawnedR, engineTimer,
                   ctxCancelled, loadWg, utilWg, docs, srcVars, pushVars,
                   writerVars, readerVars, queueVars, dbVars, results,
                   resultsQueue, grPc, sent, closedChans>>

\* getResults, lines 329 and 334: a result is received, also from a closed
\* channel that still buffers some, and q.Enqueue(opResult) stores it.
GR_Receive ==
    /\ Alive
    /\ grPc = "loop"
    /\ results # <<>>
    /\ resultsQueue' = Append(resultsQueue, Head(results))
    /\ results' = Tail(results)
    /\ UNCHANGED <<cfgVars, fatal, coordVars, loadWg, utilWg, docs, srcVars,
                   pushVars, writerVars, readerVars, queueVars, dbVars,
                   resultsOpen, grPc, sent, closedChans>>

\* GR_Closed returning as soon as the channel is closed, whatever it still
\* buffers.
GR_ClosedDiscards ==
    /\ Alive
    /\ grPc = "loop"
    /\ ~resultsOpen
    /\ grPc' = "exit"
    /\ utilWg' = utilWg - 1
    /\ UNCHANGED <<cfgVars, fatal, coordVars, loadWg, docs, srcVars,
                   pushVars, writerVars, readerVars, queueVars, dbVars,
                   results, resultsOpen, resultsQueue, sent, closedChans>>

\* getResults, lines 329-333: the receive reports !ok, which a closed
\* channel does once it is empty; return, with the deferred wg.Done().
GR_Closed ==
    /\ Alive
    /\ grPc = "loop"
    /\ ~resultsOpen
    /\ results = <<>>
    /\ grPc' = "exit"
    /\ utilWg' = utilWg - 1
    /\ UNCHANGED <<cfgVars, fatal, coordVars, loadWg, docs, srcVars,
                   pushVars, writerVars, readerVars, queueVars, dbVars,
                   results, resultsOpen, resultsQueue, sent, closedChans>>

\* The writer's insert of the held document; its OperationResult is
\* recorded next, failed or not.
RW_Insert(w) ==
    /\ Alive
    /\ wpc[w] = "insert"
    /\ \E ok \in BOOLEAN :
        /\ InsertDocument(ok)
        /\ wId' = [wId EXCEPT ![w] = InsertResult(ok)]
    /\ wpc' = [wpc EXCEPT ![w] = "record"]
    /\ UNCHANGED <<cfgVars, resVars, fatal, coordVars, loadWg, utilWg, docs,
                   srcVars, pushVars, wTimer, wHeld, readerVars, queueVars>>

\* The OperationResult of the writer's last insert.
OperationResult(w) == [writer |-> w, success |-> wId[w] # NoId]

\* The writer sends the result on the results channel, which has room.  A
\* send on a closed channel is a run-time panic.
RW_Record(w) ==
    /\ Alive
    /\ wpc[w] = "record"
    /\ Len(results) < ResultsCap
    /\ IF resultsOpen
       THEN /\ results' = Append(results, OperationResult(w))
            /\ sent' = Append(sent, OperationResult(w))
            /\ wpc' = [wpc EXCEPT ![w] = "select"]
            /\ UNCHANGED <<cfgVars, fatal, coordVars, loadWg, utilWg, docs,
                           srcVars, pushVars, wTimer, wHeld, wId,
                           readerVars, queueVars, dbVars, resultsOpen,
                           resultsQueue, grPc, closedChans>>
       ELSE Panic

\* The results buffer is full: the result is not sent, and is lost.
RW_RecordDropped(w) ==
    /\ Alive
    /\ wpc[w] = "record"
    /\ Len(results) >= ResultsCap
    /\ wpc' = [wpc EXCEPT ![w] = "select"]
    /\ UNCHANGED <<cfgVars, resVars, fatal, coordVars, loadWg, utilWg, docs,
                   srcVars, pushVars, wTimer, wHeld, wId, readerVars,
                   queueVars, dbVars>>

InitResults ==
    /\ InitCommon
    /\ redisList = <<>>
    /\ redisEnabled = FALSE
    /\ pushEnabled = TRUE
    /\ writes = MaxWriters
    /\ reads = 0
    /\ coordPc = "init"

NextResults ==
    \/ Tick
    \/ L_Init
    \/ RR_StartUtility
    \/ C_SpawnWriter
    \/ RR_LoadWait
    \/ RR_CloseResults
    \/ UD_Send
    \/ UD_Done
    \/ UD_Default
    \/ C_SignalPusher
    \/ C_UtilWait
    \/ L_Return
    \/ P_IntervalPush
    \/ P_FinalPush
    \/ GR_Receive
    \/ GR_Closed
    \/ \E w \in Writers :
          \/ W_Start(w)
          \/ W_FirstDocument(w)
          \/ W_SelectTimeout(w)
          \/ W_SelectDocument(w)
          \/ W_SelectDefault(w)
          \/ RW_Insert(w)
          \/ RW_Record(w)
          \/ RW_RecordDropped(w)

SpecResults == InitResults /\ [][NextResults]_vars

\* C28: nothing sent on the results channel is lost: what has been sent is
\* what getResults has stored followed by what the channel still buffers,
\* and once getResults has returned, and so by the time the wait for the
\* utility routines is over, every result sent is in the results queue.
C28_EverySentResultIsStored ==
    /\ sent = resultsQueue \o results
    /\ (grPc = "exit" \/ coordPc \in {"cancel", "done"}) =>
           /\ results = <<>>
           /\ resultsQueue = sent

\* The run is over, the writers have sent two results, and both are stored.
C28_Witness ==
    /\ coordPc = "done"
    /\ utilWg = 0
    /\ Len(sent) = 2
    /\ resultsQueue = sent

\* C29: after any sequence of Enqueue and Dequeue calls on one queue, a
\* Dequeue on an empty queue among them, the items_queued gauge equals the
\* number of items the queue holds, and is never negative.
C29_GaugeIsItemsQueued ==
    /\ queueSize = Len(Content)
    /\ queueSize >= 0

\* C30: a writer at the select of its loop can always take a step, also
\* when the document channel is empty (MaxInserts being the bound on the
\* inserts of a run); when it goes on to insert with the channel empty it
\* holds the document it held, and it holds another only by having taken
\* the first document of the channel.
C30_WriterNeverWaitsForDocument ==
    [][\A w \in Writers :
          /\ (Alive /\ wpc[w] = "select" /\ opLatency.insert < MaxInserts) =>
                 ENABLED (\/ W_SelectTimeout(w)
                          \/ W_SelectDocument(w)
                          \/ W_SelectDefault(w))
          /\ (wpc[w] = "select" /\ wpc'[w] = "insert") =>
                 \/ /\ docs' = docs
                    /\ wHeld'[w] = wHeld[w]
                 \/ /\ docs # <<>>
                    /\ docs' = Tail(docs)
                    /\ wHeld'[w] = Head(docs)
          /\ (wpc[w] = "select" /\ wpc'[w] = "insert" /\ docs = <<>>) =>
                 wHeld'[w] = wHeld[w]]_vars

\* The only writer has inserted once and is at its select before its
\* deadline with the document channel empty: its next step is the insert of
\* the document it holds.
C30_Witness ==
    /\ Alive
    /\ writes = 1
    /\ wpc[1] = "select"
    /\ docs = <<>>
    /\ ~Ready(wTimer[1])
    /\ opLatency.insert = 1
    /\ ENABLED W_SelectDefault(1)

\* C31: the writers started are the first spawnedW of the configured ones
\* and the readers the first spawnedR, never more than configured; the
\* wait group counts exactly the started routines that have not returned
\* (each is added before its go statement and is done once, on its return),
\* so it is never negative; and the wait of startLoadGeneration has
\* returned only with every configured writer and reader started and exited.
C31_WorkersCountedOnceEach ==
    /\ spawnedW <= writes
    /\ spawnedR <= reads
    /\ \A w \in Writers : wpc[w] # "idle" <=> w <= spawnedW
    /\ \A r \in Readers : rpc[r] # "idle" <=> r <= spawnedR
    /\ loadWg >= 0
    /\ loadWg = Cardinality({w \in Writers : wpc[w] \notin {"idle", "exit"}})
              + Cardinality({r \in Readers : rpc[r] \notin {"idle", "exit"}})
    /\ LoadWaitReturned => WritersExited /\ ReadersExited

\* The wait has returned on a run of two writers and a reader.
C31_Witness ==
    /\ LoadWaitReturned
    /\ writes = 2
    /\ reads = 1
    /\ loadWg = 0

\* C32: for inserts and for reads, the failure counter never exceeds the
\* number of latency observations of that kind.
C32_FailuresWithinAttempts ==
    /\ opFailure.insert <= opLatency.insert
    /\ opFailure.read <= opLatency.read

\* C33: a reader reads every item it has taken from the Queue before it
\* takes another in its place.  For a run with one reader: of the items
\* dequeued so far at most one, the one the reader holds, has not been
\* read yet, so the items dequeued are at most one more than the reads made.
C33_DequeuedItemsAreRead ==
    reads = 1 => Len(dequeued) <= dbCalls.read + 1


\* C34: no task sends on a closed channel and no channel is closed while a
\* task that sends on it is still running.  The results channel is closed
\* only when every writer has finished, the document channel only when its
\* producer has finished, and the shutdown channels only when the
\* coordinator, their one sender, has made its last send and is returning;
\* no send ever meets a closed channel (which would be a run-time panic).
C34_NoSendOnClosedChannel ==
    /\ coordPc # "panic"
    /\ ~resultsOpen => \A w \in Writers : wpc[w] \in {"idle", "exit"}
    /\ "docs" \in closedChans => docSrcPc \in {"idle", "exit"}
    /\ closedChans \cap {"done", "exit"} # {} => coordPc = "done"

C34_Witness ==
    /\ coordPc = "done"
    /\ ~resultsOpen
    /\ closedChans = {"exit", "done", "docs"}
    /\ Len(sent) > 0


\* C35: the coordinator's shutdown sends are always received.  While it
\* sends on the document producer's done channel the producer is still in
\* its loop, and the producer eventually takes the signal and returns;
\* while it sends on the pusher's exit channel the pusher is still in its
\* select, and eventually takes the signal; with the gateway disabled no
\* pusher exists and the coordinator passes on without sending.
C35_ShutdownSendIsReceived ==
    /\ [](coordPc = "sendDone" => docSrcPc = "loop")
    /\ [](coordPc = "cleanup" /\ pushEnabled => pusherPc = "select")
    /\ [](~pushEnabled => pusherPc = "idle")
    /\ (coordPc = "sendDone") ~> (docSrcPc = "exit")
    /\ (coordPc = "cleanup" /\ pushEnabled) ~> (pusherPc \in {"exiting", "exit"})
    /\ (coordPc = "cleanup") ~> (coordPc # "cleanup")

C35_Witness ==
    /\ coordPc = "utilWait"
    /\ pushEnabled
    /\ pusherPc = "exiting"
    /\ docSrcPc = "exit"


\* C36: the database context is cancelled only when every writer, every
\* reader and every utility task (the pusher, the document source) has
\* finished, so that no database operation is in flight at the cancel.
C36_CancelAfterEveryTask ==
    ctxCancelled =>
        /\ WritersExited
        /\ ReadersExited
        /\ pusherPc \in {"idle", "exit"}
        /\ docSrcPc \in {"idle", "exit"}


\* C37: the draining loop after the run (Dequeue while Head() is not nil)
\* runs when every writer, the only producers, has returned; it terminates;
\* the items removed are exactly the items the queue held, in their order;
\* and after it the queue is empty and Size() is 0.
C37_DrainEmptiesTheQueue ==
    /\ [](coordPc \in {"inspect", "drain"} => WritersExited)
    /\ [](dequeued \o queue = enqueued)
    /\ [](coordPc \in {"sendDone", "cleanup", "utilWait", "cancel", "done"} =>
            /\ queue = <<>>
            /\ MemSize = 0
            /\ MemHead = Nil)
    /\ (coordPc = "drain") ~> (coordPc = "sendDone")

C37_Witness ==
    /\ coordPc = "sendDone"
    /\ Len(dequeued) = 2
    /\ dequeued = enqueued
    /\ MemSize = 0

====
